---------------------------- MODULE Spec2Model ----------------------------
(***************************************************************************)
(* nmapTables (src/main.go): main walks a directory of Nmap XML files,     *)
(* GenerateTableData groups the host:port of every non-filtered port whose *)
(* service name equals the requested one by "product version", and the     *)
(* rows are rendered into <service>.html.                                  *)
(*                                                                         *)
(* Texts that the program concatenates or orders (addresses, port ids,     *)
(* products, versions, keys, host lists) are sequences of byte values, so  *)
(* that Go's + and < on strings are \o and StrLess here.  Texts that are   *)
(* only compared for equality (port state, service name) are TLA+ strings. *)
(***************************************************************************)
EXTENDS Integers, Sequences, FiniteSets

VARIABLES
    pc,          \* main's position
    serviceName, \* *serviceName, the -service flag
    nmapDir,     \* *nmapDir, the -nmap-dir flag
    nmapFiles,   \* the files FilePathWalkDir returned, in walk order
    tableData,   \* the rows GenerateTableData returned
    diag,        \* the messages printed so far (stdout and the log)
    exitCode,    \* the process's exit status (read when pc = "exited")
    report       \* the state of <service>.html as left by this run

vars == <<pc, serviceName, nmapDir, nmapFiles, tableData, diag, exitCode, report>>

----------------------------------------------------------------------------
(* Bounds of the model. *)

\* the most files a walk returns
MaxFiles == 2
\* the most <port> elements in all the files of a walk together
MaxObs == 2

----------------------------------------------------------------------------
(* Texts. *)

\* the " " of fmt.Sprintf("%s %s", ...)
Space == <<32>>
\* the ":" of hostIP + ":" + portID
Colon == <<58>>
\* "<br>"
BR == <<60, 98, 114, 62>>

Min(a, b) == IF a < b THEN a ELSE b

\* Go's a < b on strings: bytewise, a proper prefix is smaller
StrLess(a, b) ==
    \E k \in 0..Min(Len(a), Len(b)) :
        /\ \A i \in 1..k : a[i] = b[i]
        /\ \/ k = Len(a) /\ k < Len(b)
           \/ k < Len(a) /\ k < Len(b) /\ a[k + 1] < b[k + 1]

StrLeq(a, b) == a = b \/ StrLess(a, b)

----------------------------------------------------------------------------
(* The inputs: what the file system and the XML decoder hand the program.  *)

\* <port> elements: Portid, State.State, Service.Name/Product/Version
PortChoices ==
    { [Portid |-> <<56, 48>>, State |-> "open", Name |-> "ms",
       Product |-> <<>>, Version |-> <<98>>],             \* 80 open ms "" "b"
      [Portid |-> <<57>>, State |-> "open", Name |-> "ms",
       Product |-> <<97>>, Version |-> <<32>>],           \* 9 open ms "a" " "
      [Portid |-> <<56, 48>>, State |-> "open", Name |-> "ms",
       Product |-> <<97, 32>>, Version |-> <<>>],         \* 80 open ms "a " ""
      [Portid |-> <<57>>, State |-> "filtered", Name |-> "ms",
       Product |-> <<>>, Version |-> <<98>>],             \* 9 filtered ms "" "b"
      [Portid |-> <<56, 48>>, State |-> "open", Name |-> "MS",
       Product |-> <<97, 32>>, Version |-> <<>>],         \* 80 open MS "a " ""
      [Portid |-> <<56, 48>>, State |-> "open", Name |-> "",
       Product |-> <<>>, Version |-> <<98>>] }            \* 80 open "" "" "b"

\* Host.Address: no <address> element, or two ("10" then "2")
AddressChoices == { <<>>, <<[Addr |-> <<49, 48>>], [Addr |-> <<50>>]>> }

\* the -service flag
NameChoices == {"ms", "MS"}

PortSeqs(n) == UNION {[1..k -> PortChoices] : k \in 0..n}

\* A file: err says whether os.ReadFile or xml.Unmarshal fails on it; Address and
\* Ports are what xml.Unmarshal left in nmapRun.Host.  A document that fails to
\* parse had its host's addresses and n ports decoded before the error.
FileChoices(n) ==
    {[err |-> "read", Address |-> <<>>, Ports |-> <<>>]}
    \cup [err : {"none"}, Address : AddressChoices, Ports : PortSeqs(n)]
    \cup [err : {"unmarshal"}, Address : {<<[Addr |-> <<49, 48>>], [Addr |-> <<50>>]>>},
          Ports : PortSeqs(n)]

\* the <port> elements of these files together
RECURSIVE TotalPorts(_)
TotalPorts(files) ==
    IF files = <<>> THEN 0 ELSE Len(Head(files).Ports) + TotalPorts(Tail(files))

----------------------------------------------------------------------------
(* GenerateTableData, src/main.go lines 17-65. *)

\* versionMap := make(map[string][]string)
EmptyMap == [k \in {} |-> <<>>]

\* hostIP: the first listed address, "" when the host has none
HostIP(f) == IF Len(f.Address) > 0 THEN f.Address[1].Addr ELSE <<>>

\* a slip: the product and the version joined without the space
VersionKey_NoSpace(port) == port.Product \o port.Version

\* serviceVersion := fmt.Sprintf("%s %s", port.Service.Product, port.Service.Version)
VersionKey(port) == port.Product \o Space \o port.Version

\* hostPort := hostIP + ":" + portID
HostPort(f, port) == HostIP(f) \o Colon \o port.Portid

\* a slip: the names compared without regard to letter case (strings.EqualFold)
FoldCase(n) == IF n = "MS" THEN "ms" ELSE n
NameMatches_FoldCase(portName, name) == FoldCase(portName) = FoldCase(name)

\* port.Service.Name == serviceName
NameMatches(portName, name) == portName = name

\* a slip: a host:port already in the bucket is not appended again
AppendHost_Dedup(vm, key, hostPort) ==
    IF key \in DOMAIN vm
    THEN (IF \E i \in DOMAIN vm[key] : vm[key][i] = hostPort
          THEN vm
          ELSE [vm EXCEPT ![key] = Append(@, hostPort)])
    ELSE [k \in DOMAIN vm \cup {key} |-> IF k = key THEN <<hostPort>> ELSE vm[k]]

\* versionMap[serviceVersion] = append(versionMap[serviceVersion], hostPort)
AppendHost(vm, key, hostPort) ==
    IF key \in DOMAIN vm
    THEN [vm EXCEPT ![key] = Append(@, hostPort)]
    ELSE [k \in DOMAIN vm \cup {key} |-> IF k = key THEN <<hostPort>> ELSE vm[k]]

\* a slip: the state of the port is not looked at
ProcessPort_KeepFiltered(vm, f, port, name) ==
    IF port.Name = name
    THEN [k \in DOMAIN vm \cup {port.Product \o Space \o port.Version} |->
            IF k = port.Product \o Space \o port.Version
            THEN (IF k \in DOMAIN vm THEN vm[k] ELSE <<>>)
                     \o <<HostIP(f) \o Colon \o port.Portid>>
            ELSE vm[k]]
    ELSE vm

\* a slip: the bucket of the key is made before the name is compared
ProcessPort_TouchBucket(vm, f, port, name) ==
    IF port.State = "filtered" THEN vm
    ELSE LET key == port.Product \o Space \o port.Version
             hosts == IF key \in DOMAIN vm THEN vm[key] ELSE <<>>
         IN  [k \in DOMAIN vm \cup {key} |->
                IF k = key
                THEN (IF port.Name = name
                      THEN Append(hosts, HostIP(f) \o Colon \o port.Portid)
                      ELSE hosts)
                ELSE vm[k]]

\* the body of the loop over the ports of one file
ProcessPort(vm, f, port, name) ==
    IF port.State = "filtered" THEN vm
    ELSE IF NameMatches(port.Name, name)
         THEN AppendHost(vm, VersionKey(port), HostPort(f, port))
         ELSE vm

\* for _, port := range nmapRun.Host.Ports.Port
RECURSIVE ProcessPorts(_, _, _, _)
ProcessPorts(vm, f, ports, name) ==
    IF ports = <<>> THEN vm
    ELSE ProcessPorts(ProcessPort(vm, f, Head(ports), name), f, Tail(ports), name)

\* a slip: no continue after a failed xml.Unmarshal
ProcessFile_NoContinue(vm, f, name) ==
    IF f.err = "read" THEN vm ELSE ProcessPorts(vm, f, f.Ports, name)

\* the body of the loop over the files: a file that cannot be read or parsed is
\* skipped (continue)
ProcessFile(vm, f, name) ==
    IF f.err = "read" THEN vm
    ELSE IF f.err = "unmarshal" THEN vm
    ELSE ProcessPorts(vm, f, f.Ports, name)

\* for _, filePath := range nmapFiles
RECURSIVE ProcessFiles(_, _, _)
ProcessFiles(vm, files, name) ==
    IF files = <<>> THEN vm
    ELSE ProcessFiles(ProcessFile(vm, Head(files), name), Tail(files), name)

\* what the loop over the files prints: one message for a file it skips
RECURSIVE FileMessages(_, _)
FileMessages(files, i) ==
    IF i > Len(files) THEN <<>>
    ELSE (IF files[i].err = "read"
          THEN <<[kind |-> "Error reading file", file |-> i]>>
          ELSE IF files[i].err = "unmarshal"
          THEN <<[kind |-> "Failed to unmarshal xml data", file |-> i]>>
          ELSE <<>>) \o FileMessages(files, i + 1)

Swap(s, i, j) == [s EXCEPT ![i] = s[j], ![j] = s[i]]

\* a slip: the hosts of a bucket are left in insertion order
SortStrings_Missing(hosts) == hosts

\* sort.Strings(hosts): an insertion sort for the short slices of the model
RECURSIVE SinkString(_, _)
SinkString(s, j) ==
    IF j > 1 /\ StrLess(s[j], s[j - 1]) THEN SinkString(Swap(s, j, j - 1), j - 1) ELSE s

RECURSIVE SortStringsFrom(_, _)
SortStringsFrom(s, i) ==
    IF i > Len(s) THEN s ELSE SortStringsFrom(SinkString(s, i), i + 1)

SortStrings(hosts) == SortStringsFrom(hosts, 2)

\* strings.Join(hosts, sep)
RECURSIVE Join(_, _)
Join(hosts, sep) ==
    IF hosts = <<>> THEN <<>>
    ELSE IF Len(hosts) = 1 THEN hosts[1]
    ELSE hosts[1] \o sep \o Join(Tail(hosts), sep)

\* a slip: the hosts are joined in the order of the walk
Row_WalkOrder(hosts, name, version) == <<Join(hosts, BR), name, version>>

\* one row: []string{hostsJoined, serviceName, version}
Row(hosts, name, version) == <<Join(SortStrings(hosts), BR), name, version>>

\* for version, hosts := range versionMap: order is the order in which this range
\* visits the keys (Go leaves it unspecified)
Rows(vm, name, order) == [i \in 1..Len(order) |-> Row(vm[order[i]], name, order[i])]

\* a slip: the rows are left in the order of the range over the map
SortRows_Missing(data) == data

\* sort.Slice(data, func(i, j int) bool { return data[i][2] < data[j][2] })
RECURSIVE SinkRow(_, _)
SinkRow(s, j) ==
    IF j > 1 /\ StrLess(s[j][3], s[j - 1][3]) THEN SinkRow(Swap(s, j, j - 1), j - 1) ELSE s

RECURSIVE SortRowsFrom(_, _)
SortRowsFrom(s, i) ==
    IF i > Len(s) THEN s ELSE SortRowsFrom(SinkRow(s, i), i + 1)

SortRows(data) == SortRowsFrom(data, 2)

\* the orders in which a range over a map with these keys can visit them
RangeOrders(keys) ==
    {o \in [1..Cardinality(keys) -> keys] : \A i, j \in DOMAIN o : i # j => o[i] # o[j]}

\* every result GenerateTableData can return on these files: one per order of
\* the range over versionMap
TablesOf(files, name) ==
    LET versionMap == ProcessFiles(EmptyMap, files, name)
    IN  {SortRows(Rows(versionMap, name, order)) : order \in RangeOrders(DOMAIN versionMap)}

----------------------------------------------------------------------------
(* main, src/main.go lines 112-159. *)

Say(kind) == Append(diag, [kind |-> kind, file |-> 0])

\* log.Fatal, log.Fatalf: print the message and os.Exit(1)
Fatal(kind) ==
    /\ diag' = Say(kind)
    /\ exitCode' = 1
    /\ pc' = "exited"

\* fmt.Println(...) and return from main: the process ends with status 0
PrintAndReturn(kind) ==
    /\ diag' = Say(kind)
    /\ exitCode' = 0
    /\ pc' = "exited"

Init ==
    /\ pc = "flags"
    /\ serviceName \in NameChoices
    /\ nmapDir \in {"", "scans"}
    /\ nmapFiles = <<>>
    /\ tableData = <<>>
    /\ diag = <<>>
    /\ exitCode = 0
    /\ report = "absent"

\* if *nmapDir == "" { log.Fatal(...) }
NmapDirMissing ==
    /\ pc = "flags"
    /\ nmapDir = ""
    /\ Fatal("Please provide the Nmap directory")
    /\ UNCHANGED <<serviceName, nmapDir, nmapFiles, tableData, report>>

NmapDirGiven ==
    /\ pc = "flags"
    /\ nmapDir # ""
    /\ pc' = "resolve"
    /\ UNCHANGED <<serviceName, nmapDir, nmapFiles, tableData, diag, exitCode, report>>

\* absNmapDir, err := resolveAbsPath(*nmapDir): user.Current or filepath.Abs fails
ResolveFails ==
    /\ pc = "resolve"
    /\ Fatal("invalid path")
    /\ UNCHANGED <<serviceName, nmapDir, nmapFiles, tableData, report>>

ResolveOk ==
    /\ pc = "resolve"
    /\ pc' = "walk"
    /\ UNCHANGED <<serviceName, nmapDir, nmapFiles, tableData, diag, exitCode, report>>

\* nmapFiles, err := FilePathWalkDir(absNmapDir, ".xml"): filepath.Walk hands the
\* callback an error (the root or a directory below it cannot be read)
WalkFails ==
    /\ pc = "walk"
    /\ Fatal("Error getting files")
    /\ nmapFiles' = <<>>  \* main drops the files returned with an error
    /\ UNCHANGED <<serviceName, nmapDir, tableData, report>>

\* the callback meets the next .xml file, in the file system's order:
\* files = append(files, absPath)
WalkVisit ==
    /\ pc = "walk"
    /\ Len(nmapFiles) < MaxFiles
    /\ \E f \in FileChoices(MaxObs - TotalPorts(nmapFiles)) :
           nmapFiles' = Append(nmapFiles, f)
    /\ UNCHANGED <<pc, serviceName, nmapDir, tableData, diag, exitCode, report>>

\* the walk is over: return files, err
WalkOk ==
    /\ pc = "walk"
    /\ pc' = "generate"
    /\ UNCHANGED <<serviceName, nmapDir, nmapFiles, tableData, diag, exitCode, report>>

\* tableData := GenerateTableData(nmapFiles, *serviceName)
GenerateTableData ==
    /\ pc = "generate"
    /\ \E table \in TablesOf(nmapFiles, serviceName) : tableData' = table
    /\ diag' = diag \o FileMessages(nmapFiles, 1)
    /\ pc' = "template"
    /\ UNCHANGED <<serviceName, nmapDir, nmapFiles, exitCode, report>>

\* template.New(...).ParseFS(templateFS, "template.html") fails.  nmapFiles is not
\* read after GenerateTableData returned and is dropped here.
TemplateFails ==
    /\ pc = "template"
    /\ Fatal("Error parsing template")
    /\ nmapFiles' = <<>>
    /\ UNCHANGED <<serviceName, nmapDir, tableData, report>>

TemplateOk ==
    /\ pc = "template"
    /\ pc' = "create"
    /\ nmapFiles' = <<>>
    /\ UNCHANGED <<serviceName, nmapDir, tableData, diag, exitCode, report>>

\* outputFile, err := os.Create(outputFilename) fails
CreateFails ==
    /\ pc = "create"
    /\ PrintAndReturn("Error creating output file")
    /\ UNCHANGED <<serviceName, nmapDir, nmapFiles, tableData, report>>

\* os.Create made (or truncated) the file
CreateOk ==
    /\ pc = "create"
    /\ report' = "empty"
    /\ pc' = "execute"
    /\ UNCHANGED <<serviceName, nmapDir, nmapFiles, tableData, diag, exitCode>>

\* err = tmpl.Execute(outputFile, tableData) fails: before or after it wrote some
\* of the report
ExecuteFails ==
    /\ pc = "execute"
    /\ report' \in {"empty", "partial"}
    /\ PrintAndReturn("Error executing template")
    /\ UNCHANGED <<serviceName, nmapDir, nmapFiles, tableData>>

\* fmt.Printf("HTML table written to %s\n", outputFilename)
ExecuteOk ==
    /\ pc = "execute"
    /\ report' = "complete"
    /\ PrintAndReturn("HTML table written")
    /\ UNCHANGED <<serviceName, nmapDir, nmapFiles, tableData>>

Next ==
    \/ NmapDirMissing
    \/ NmapDirGiven
    \/ ResolveFails
    \/ ResolveOk
    \/ WalkFails
    \/ WalkVisit
    \/ WalkOk
    \/ GenerateTableData
    \/ TemplateFails
    \/ TemplateOk
    \/ CreateFails
    \/ CreateOk
    \/ ExecuteFails
    \/ ExecuteOk

Spec == Init /\ [][Next]_vars

----------------------------------------------------------------------------
(* What the properties below read off a state. *)

\* GenerateTableData has returned and main still holds its arguments
Generated == pc = "template"

\* strings.Index(s, sep) + 1, 0 when sep does not occur in s
IndexOf(s, sep) ==
    LET hits == {i \in 1..(Len(s) - Len(sep) + 1) : SubSeq(s, i, i + Len(sep) - 1) = sep}
    IN  IF hits = {} THEN 0 ELSE CHOOSE i \in hits : \A k \in hits : i <= k

\* strings.Split(s, sep): the pieces of s between the separators
RECURSIVE Split(_, _)
Split(s, sep) ==
    LET i == IndexOf(s, sep)
    IN  IF i = 0 THEN <<s>>
        ELSE <<SubSeq(s, 1, i - 1)>> \o Split(SubSeq(s, i + Len(sep), Len(s)), sep)

\* the host:port entries of a row
Entries(row) == Split(row[1], BR)

\* the observations of the input: <<i, j>> is port j of file i
Observations == UNION {{<<i, j>> : j \in 1..Len(nmapFiles[i].Ports)} : i \in 1..Len(nmapFiles)}

FileOf(o) == nmapFiles[o[1]]
PortOf(o) == nmapFiles[o[1]].Ports[o[2]]

\* the file was read and parsed
Readable(f) == f.err = "none"

\* product + " " + version, and host + ":" + port, as the specification defines them
KeyText(o) == PortOf(o).Product \o <<32>> \o PortOf(o).Version
EntryText(o) ==
    (IF FileOf(o).Address = <<>> THEN <<>> ELSE FileOf(o).Address[1].Addr)
        \o <<58>> \o PortOf(o).Portid

\* the observations the aggregation keeps
Kept == {o \in Observations :
            /\ Readable(FileOf(o))
            /\ PortOf(o).State # "filtered"
            /\ PortOf(o).Name = serviceName}

\* how often e occurs in the sequence s
Count(s, e) == Cardinality({i \in DOMAIN s : s[i] = e})

RowKeys == {tableData[i][3] : i \in DOMAIN tableData}

\* an observation outside Kept left no trace: its key has a row only if a kept
\* observation has that key, and its entry is in that row only if a kept
\* observation put an equal entry there
NoTrace(o) ==
    /\ (\A k \in Kept : KeyText(k) # KeyText(o)) => KeyText(o) \notin RowKeys
    /\ \A i \in DOMAIN tableData :
           (/\ tableData[i][3] = KeyText(o)
            /\ \A k \in Kept : KeyText(k) = KeyText(o) => EntryText(k) # EntryText(o))
           => Count(Entries(tableData[i]), EntryText(o)) = 0

----------------------------------------------------------------------------
(* The claims. *)

\* C1: the rows are in ascending lexicographic order of their versionKey (element
\* 3 of a row), whatever order the range over versionMap took.
C1_RowsSortedByVersionKey ==
    \A i, j \in DOMAIN tableData : i < j => StrLeq(tableData[i][3], tableData[j][3])

\* two rows, made from two files
C1_Witness ==
    /\ Generated
    /\ Len(tableData) = 2
    /\ StrLess(tableData[1][3], tableData[2][3])
    /\ Cardinality({o[1] : o \in Kept}) = 2

\* C2: the host:port entries of every row's hostsField, the pieces between the
\* "<br>" separators, are in ascending lexicographic order.
C2_HostsSortedInRow ==
    \A r \in DOMAIN tableData :
        LET e == Entries(tableData[r])
        IN  \A i, j \in DOMAIN e : i < j => StrLeq(e[i], e[j])

\* ":80" was met before "10:80", and the row reads "10:80<br>:80"
C2_Witness ==
    /\ Generated
    /\ Len(nmapFiles) = 2
    /\ Kept = {<<1, 1>>, <<2, 1>>}
    /\ EntryText(<<1, 1>>) = <<58, 56, 48>>
    /\ EntryText(<<2, 1>>) = <<49, 48, 58, 56, 48>>
    /\ Len(tableData) = 1
    /\ tableData[1][1] = <<49, 48, 58, 56, 48>> \o BR \o <<58, 56, 48>>

\* C3: an observation whose port state is "filtered" contributes no entry and no
\* row, also when its service name is the requested one.
C3_FilteredNeverContributes ==
    Generated =>
        \A o \in Observations :
            (Readable(FileOf(o)) /\ PortOf(o).State = "filtered") => NoTrace(o)

\* a filtered port with the requested name beside a kept observation of the same
\* key: the row holds the kept entry alone
C3_Witness ==
    /\ Generated
    /\ \E o \in Observations :
           /\ Readable(FileOf(o))
           /\ PortOf(o).State = "filtered"
           /\ PortOf(o).Name = serviceName
           /\ \E k \in Kept : KeyText(k) = KeyText(o) /\ EntryText(k) # EntryText(o)
    /\ Len(tableData) = 1
    /\ Len(Entries(tableData[1])) = 1

\* C4: an observation whose service name is not exactly the requested one (by
\* letter case, or empty) contributes no entry and no row.
C4_OtherNameNeverContributes ==
    Generated =>
        \A o \in Observations :
            (Readable(FileOf(o)) /\ PortOf(o).Name # serviceName) => NoTrace(o)

\* an open port whose name differs from the requested one only by case, beside a
\* kept observation
C4_Witness ==
    /\ Generated
    /\ serviceName = "ms"
    /\ \E o \in Observations :
           /\ Readable(FileOf(o))
           /\ PortOf(o).State = "open"
           /\ PortOf(o).Name = "MS"
    /\ Kept # {}
    /\ Len(tableData) = 1

\* the permutations of 1..n
Perms(n) == {p \in [1..n -> 1..n] : \A i, j \in 1..n : i # j => p[i] # p[j]}

\* the file with its ports in another order
PortOrders(f) ==
    {[f EXCEPT !.Ports = [k \in 1..Len(f.Ports) |-> f.Ports[q[k]]]] : q \in Perms(Len(f.Ports))}

\* the files in the order p
Permuted(files, p) == [i \in 1..Len(files) |-> files[p[i]]]

\* these files in this order, each with its ports in another order
RECURSIVE PortRearrangements(_)
PortRearrangements(files) ==
    IF files = <<>> THEN {<<>>}
    ELSE {<<f>> \o rest : f \in PortOrders(Head(files)),
                          rest \in PortRearrangements(Tail(files))}

\* the same files met in another order, each with its ports in another order
Rearrangements(files) ==
    UNION {PortRearrangements(Permuted(files, p)) : p \in Perms(Len(files))}

\* C5: for a fixed service name the rows do not depend on the order of the files,
\* of the ports within a file, or of the range over versionMap: every run on a
\* rearrangement of the same observations returns the rows this run returned.
C5_OrderIndependent ==
    Generated =>
        \A g \in Rearrangements(nmapFiles) : TablesOf(g, serviceName) = {tableData}

\* two files that both contribute, to one row with two different entries or to
\* two rows
C5_Witness ==
    /\ Generated
    /\ Cardinality(Rearrangements(nmapFiles)) > 1
    /\ Kept = {<<1, 1>>, <<2, 1>>}
    /\ EntryText(<<1, 1>>) # EntryText(<<2, 1>>)
    /\ KeyText(<<1, 1>>) = KeyText(<<2, 1>>)
    /\ Len(tableData) = 1

\* C6: one row per distinct VersionKey (product + " " + version, the space kept
\* when a side is empty) among the kept observations: no key has two rows, the
\* keys of the rows are the keys of the kept observations, and a row holds the
\* entries of exactly the kept observations whose key text is the row's.
C6_OneRowPerVersionKey ==
    Generated =>
        /\ \A i, j \in DOMAIN tableData : i # j => tableData[i][3] # tableData[j][3]
        /\ RowKeys = {KeyText(k) : k \in Kept}
        /\ \A i \in DOMAIN tableData :
               {Entries(tableData[i])[n] : n \in DOMAIN Entries(tableData[i])}
                   = {EntryText(k) : k \in {x \in Kept : KeyText(x) = tableData[i][3]}}

\* "a" + " " and "a " + "" are one key: two observations, one row "a  "
C6_Witness ==
    /\ Generated
    /\ \E k1, k2 \in Kept :
           /\ PortOf(k1).Product # PortOf(k2).Product
           /\ PortOf(k2).Version = <<>>
           /\ KeyText(k1) = KeyText(k2)
    /\ Len(tableData) = 1
    /\ tableData[1][3] = <<97, 32, 32>>
    /\ Len(Entries(tableData[1])) = 2

\* the files that were read and parsed, in order
RECURSIVE WithoutBad(_)
WithoutBad(files) ==
    IF files = <<>> THEN <<>>
    ELSE (IF Readable(Head(files)) THEN <<Head(files)>> ELSE <<>>) \o WithoutBad(Tail(files))

PerFileKinds == {"Error reading file", "Failed to unmarshal xml data"}

\* C8: a file that cannot be read or parsed does not end the run: it gets one
\* message naming it, nothing of it reaches a row, and the rows are those of the
\* run without it; no exit with a failure status follows from its message.
C8_BadFileSkipped ==
    /\ Generated =>
        /\ \A i \in 1..Len(nmapFiles) :
               Cardinality({d \in DOMAIN diag :
                               diag[d].file = i /\ diag[d].kind \in PerFileKinds})
                   = IF Readable(nmapFiles[i]) THEN 0 ELSE 1
        /\ \A d \in DOMAIN diag : diag[d].kind \in PerFileKinds
        /\ TablesOf(WithoutBad(nmapFiles), serviceName) = {tableData}
        /\ RowKeys = {KeyText(k) : k \in Kept}
    /\ (pc = "exited" /\ exitCode # 0) => diag[Len(diag)].kind \notin PerFileKinds

\* a document that fails to parse after a port with the requested name was
\* decoded, and a good file: one message, one row from the good file alone
C8_Witness ==
    /\ Generated
    /\ Len(nmapFiles) = 2
    /\ nmapFiles[1].err = "unmarshal"
    /\ Len(nmapFiles[1].Ports) = 1
    /\ nmapFiles[1].Ports[1].State = "open"
    /\ nmapFiles[1].Ports[1].Name = serviceName
    /\ Kept = {<<2, 1>>}
    /\ KeyText(<<1, 1>>) # KeyText(<<2, 1>>)
    /\ Len(diag) = 1
    /\ Len(tableData) = 1

\* C9: the kept observations are conserved with their multiplicity: the row of a
\* key holds as many entries as there are kept observations with that key, each
\* text host + ":" + port as often as it was observed, host being the first
\* listed address or "".
C9_EntriesConserved ==
    Generated =>
        /\ \A k \in Kept : KeyText(k) \in RowKeys
        /\ \A i \in DOMAIN tableData :
               LET same == {k \in Kept : KeyText(k) = tableData[i][3]}
               IN  /\ Len(Entries(tableData[i])) = Cardinality(same)
                   /\ \A k \in same :
                          Count(Entries(tableData[i]), EntryText(k))
                              = Cardinality({x \in same : EntryText(x) = EntryText(k)})

\* the same host:port and key in two files: the row holds the entry twice
C9_Witness ==
    /\ Generated
    /\ Kept = {<<1, 1>>, <<2, 1>>}
    /\ EntryText(<<1, 1>>) = EntryText(<<2, 1>>)
    /\ KeyText(<<1, 1>>) = KeyText(<<2, 1>>)
    /\ FileOf(<<1, 1>>).Address # <<>>
    /\ Len(tableData) = 1
    /\ Entries(tableData[1]) = <<EntryText(<<1, 1>>), EntryText(<<1, 1>>)>>

\* C10: no kept observation, no row (no file, no port, or only filtered and
\* other-named ports); and every row has a non-empty hostsField that starts with
\* the entry of a kept observation.
C10_EmptyWhenNothingKept ==
    Generated =>
        /\ Kept = {} => tableData = <<>>
        /\ \A i \in DOMAIN tableData :
               /\ tableData[i][1] # <<>>
               /\ Entries(tableData[i])[1] \in {EntryText(k) : k \in Kept}

\* two readable files, one with a filtered port of the requested name and one
\* with an open port of another name: no row
C10_Witness ==
    /\ Generated
    /\ tableData = <<>>
    /\ Len(nmapFiles) = 2
    /\ \A i \in 1..2 : Readable(nmapFiles[i]) /\ Len(nmapFiles[i].Ports) = 1
    /\ nmapFiles[1].Ports[1].State = "filtered"
    /\ nmapFiles[1].Ports[1].Name = serviceName
    /\ nmapFiles[2].Ports[1].State = "open"

SetupFailureKinds ==
    {"Please provide the Nmap directory", "invalid path", "Error getting files",
     "Error creating output file", "Error executing template"}

\* C7: after a fatal setup failure (no root directory given, path not resolvable,
\* root not traversable, report file not created or not written) the run has
\* printed that one message, ended with a non-zero status, left no report, not
\* even a partial one, and printed no success confirmation.
C7_SetupFailureIsFatal ==
    (pc = "exited" /\ \E d \in DOMAIN diag : diag[d].kind \in SetupFailureKinds) =>
        /\ Cardinality({d \in DOMAIN diag : diag[d].kind \in SetupFailureKinds}) = 1
        /\ exitCode # 0
        /\ report = "absent"
        /\ \A d \in DOMAIN diag : diag[d].kind # "HTML table written"

============================================================================
